---- MODULE Spec2Model ----
(***************************************************************************)
(* A model of package sharding (src/sharding.go, lines 1-316): Connect,    *)
(* which opens one connection per shard config concurrently, and the       *)
(* cluster operations One, Map, Each and ByKeys.                           *)
(*                                                                         *)
(* Goroutines are modelled one step per synchronisation point: the call of *)
(* the caller-supplied function, its return, the send on the error channel,*)
(* Lock, append, Unlock and the deferred wg.Done.                          *)
(***************************************************************************)
EXTENDS Integers, Sequences, FiniteSets, TLC

\* ---------------------------------------------------------------- bounds
\* longest shard config list given to Connect
MaxCfg == 3
\* longest key sequence given to ByKeys
MaxKeys == 3

\* most shards of a Cluster the operations are tried on
MaxShards == 3

\* ---------------------------------------------------------------- values
\* the nil error
Nil == "nil"
\* the nil Cluster: no shard list and no strategy
NoCluster == [list |-> <<>>, calc |-> Nil]

\* shard ids of the configs Connect is tried with (int64: zero is invalid,
\* negative ids are valid)
IDs == {-1, 0, 1, 2}

\* addresses as sequences of characters: a blank one and three that are not
\* blank
Addrs == { <<" ">>, <<"a">>, <<"b">>, <<" ", "c">> }

Whitespace == {" ", "\t", "\n", "\r"}

RECURSIVE TrimLeft(_)
TrimLeft(s) ==
    IF s # <<>> /\ Head(s) \in Whitespace THEN TrimLeft(Tail(s)) ELSE s

RECURSIVE TrimRight(_)
TrimRight(s) ==
    IF s # <<>> /\ s[Len(s)] \in Whitespace
    THEN TrimRight(SubSeq(s, 1, Len(s) - 1))
    ELSE s

\* strings.TrimSpace
TrimSpace(s) == TrimRight(TrimLeft(s))

ShardConfigs == [ID : IDs, Addr : Addrs]

RECURSIVE SeqsUpTo(_, _)
SeqsUpTo(S, n) ==
    IF n = 0 THEN { <<>> }
    ELSE LET shorter == SeqsUpTo(S, n - 1)
         IN  shorter \cup { Append(q, x) : q \in { r \in shorter : Len(r) = n - 1 }, x \in S }

\* a valid that compares the address with "" without trimming it
ValidMutNoTrim(sc) ==
    IF sc.ID = 0 THEN "validation: invalid shard id"
    ELSE IF sc.Addr = <<>> THEN "validation: invalid dsn"
    ELSE Nil

\* ShardConfig.valid: the error it returns, Nil for none
valid(sc) ==
    IF sc.ID = 0 THEN "validation: invalid shard id"
    ELSE IF TrimSpace(sc.Addr) = <<>> THEN "validation: invalid dsn"
    ELSE Nil

\* ConnConfig.valid (lines 402-421): the id is an int64, a uint64 or a string
validConn(cc) ==
    IF cc.ID.kind \in {"int64", "uint64"} /\ cc.ID.val = 0
    THEN "0 is not a valid id"
    ELSE IF cc.ID.kind = "string" /\ TrimSpace(cc.ID.val) = <<>>
    THEN "id cannot be an empty string"
    ELSE IF TrimSpace(cc.DSN) = <<>> THEN "validation: invalid dsn"
    ELSE Nil

\* the addresses validation is tried with: the empty one and one of two
\* whitespace characters as well
ValidAddrs == Addrs \cup { <<>>, <<" ", "\t">> }

ValidShardConfigs == [ID : IDs, Addr : ValidAddrs]

\* the ids of a ConnConfig
ConnIDs ==
    [kind : {"int64"}, val : {-1, 0, 1}]
        \cup [kind : {"uint64"}, val : {0, 1}]
        \cup [kind : {"string"}, val : { <<>>, <<" ">>, <<"x">>, <<" ", "x">> }]

ConnConfigs == [ID : ConnIDs, DSN : ValidAddrs]

\* ---- ShardsConfigFromEnv
\* highest index of an environment entry
MaxEnv == 3

\* strings.HasSuffix
HasSuffix(str, suffix) ==
    /\ Len(str) >= Len(suffix)
    /\ SubSeq(str, Len(str) - Len(suffix) + 1, Len(str)) = suffix

\* os.Getenv: the value of the entry, "" when it is not set
Getenv(env, name) == IF name \in DOMAIN env THEN env[name] ELSE <<>>

\* lines 111-118: p, from the variadic prefix
envPrefix(prefix) ==
    IF Len(prefix) = 1
    THEN IF HasSuffix(prefix[1], <<"_">>) THEN prefix[1] ELSE prefix[1] \o <<"_">>
    ELSE <<>>

\* fmt.Sprintf("%s%s_%d", p, shardAddr, id)
indexedName(p, id) == p \o <<"SHARD_ADDRESS">> \o <<"_">> \o <<ToString(id)>>

\* lines 123-130: the loop over the indexed entries
RECURSIVE envLoop(_, _, _, _)
envLoop(env, p, id, shards) ==
    LET addr == Getenv(env, indexedName(p, id))
    IN  IF addr = <<>> THEN shards
        ELSE envLoop(env, p, id + 1, Append(shards, [ID |-> id, Addr |-> addr]))

\* a ShardsConfigFromEnv that reads the entry without index in any case
ShardsConfigFromEnvMutAlwaysFallback(env, prefix) ==
    LET p == envPrefix(prefix)
        shards == envLoop(env, p, 1, <<>>)
        addr == Getenv(env, p \o <<"SHARD_ADDRESS">>)
    IN  IF addr # <<>> THEN Append(shards, [ID |-> 1, Addr |-> addr]) ELSE shards

\* lines 110-137
ShardsConfigFromEnv(env, prefix) ==
    LET p == envPrefix(prefix)
        shards == envLoop(env, p, 1, <<>>)
        addr == Getenv(env, p \o <<"SHARD_ADDRESS">>)
    IN  IF Len(shards) = 0
        THEN IF addr # <<>> THEN <<[ID |-> 1, Addr |-> addr]>> ELSE <<>>
        ELSE shards

\* the names of the entries of the environment: with no prefix and with the
\* prefix P_, without index and with the indexes 1..MaxEnv
EnvNames ==
    { ns \o <<"SHARD_ADDRESS">> : ns \in { <<>>, <<"P", "_">> } }
        \cup { ns \o <<"SHARD_ADDRESS", "_", ToString(i)>> :
                  ns \in { <<>>, <<"P", "_">> }, i \in 1..MaxEnv }

\* the environments: an entry is "" (or not set), or a value of its own
Envs ==
    { [name \in EnvNames |-> IF name \in S THEN <<"@">> \o name ELSE <<>>] :
          S \in SUBSET EnvNames }

\* the arguments of ShardsConfigFromEnv: none, one prefix without and with
\* the underscore, and two
PrefixArgs == { <<>>, << <<"P">> >>, << <<"P", "_">> >>, << <<"P">>, <<"Q">> >> }

\* areShardsUnique: the loop over the configs with the two maps of seen
\* ids and seen addresses
RECURSIVE uniqueFrom(_, _, _, _)
uniqueFrom(shards, i, ids, addresses) ==
    IF i > Len(shards) THEN TRUE
    ELSE IF shards[i].ID \in ids THEN FALSE
    ELSE IF shards[i].Addr \in addresses THEN FALSE
    ELSE uniqueFrom(shards, i + 1, ids \cup {shards[i].ID},
                    addresses \cup {shards[i].Addr})

\* areShardsUnique without the map of seen addresses
AreShardsUniqueMutIdsOnly(shards) ==
    \A i, j \in 1..Len(shards) : i # j => shards[i].ID # shards[j].ID

areShardsUnique(shards) == uniqueFrom(shards, 1, {}, {})

\* sort.Slice(c.list, less by ID): insertion of each element in turn
RECURSIVE insertById(_, _)
insertById(s, x) ==
    IF s = <<>> THEN <<x>>
    ELSE IF x.id < Head(s).id THEN <<x>> \o s
    ELSE <<Head(s)>> \o insertById(Tail(s), x)

\* Connect without the sort.Slice call
SortMutKeepOrder(s) == s

RECURSIVE sortById(_)
sortById(s) ==
    IF s = <<>> THEN <<>> ELSE insertById(sortById(Tail(s)), Head(s))

\* ---------------------------------------------------------------- state
VARIABLES
    cfg,        \* Connect's argument: [Shards, Connect (FALSE: nil), Strategy]
    pc,         \* where Connect is: "start", "loop", "wait", "done"
    next,       \* index of the config the loop of Connect is at
    list,       \* c.list, the shard list being built
    errCh,      \* the error channel of Connect, a FIFO of errors
    mu,         \* holder of the mutex: 0 when free, else the attempt
    wg,         \* counter of the WaitGroup of Connect
    attempt,    \* per config index: the state of its goroutine
    dialed,     \* per config index: the addresses cfg.Connect was called with
    ret,        \* what Connect returned: [cluster, err]
    call,       \* per caller: its call of One, All, Map, Each or ByKeys
    task        \* per caller: the goroutines of its call, by shard

connectVars == <<cfg, pc, next, list, errCh, mu, wg, attempt, dialed, ret>>

fanVars == <<call, task>>

vars == <<cfg, pc, next, list, errCh, mu, wg, attempt, dialed, ret, call, task>>

\* the callers of the cluster operations
Callers == {"c1", "c2"}

\* a caller that has not called yet
NoCall == [op |-> "none", pc |-> "idle", ids |-> <<>>, m |-> <<>>, i |-> 1,
           errCh |-> <<>>, cap |-> 0, wg |-> 0, err |-> Nil, out |-> <<>>]

\* a goroutine of Connect: its position, its arguments (id, dsn), the
\* error cfg.Connect returned to it, and the context it called cfg.Connect
\* with
Idle == [st |-> "idle", id |-> 0, dsn |-> <<>>, err |-> Nil, ctx |-> Nil]

\* cfg.Strategy: nil, or the strategy of the tests that returns a new shard
Strategies == {Nil, "dummy"}

\* context.Background()
Background == "background"

\* cfg.Context: nil, the background context, or a context of the caller
Contexts == {Nil, Background, "ctx"}

\* the connection cfg.Connect returns for a context and an address: what it
\* opens may depend on both
Opened(c, dsn) == <<c>> \o dsn

Configs == [Shards : SeqsUpTo(ShardConfigs, MaxCfg), Connect : BOOLEAN,
            Strategy : Strategies, Context : {Nil}]

\* the state in which Connect is called with a config of C
ConnectFrom(C) ==
    /\ cfg \in C
    /\ pc = "start"
    /\ next = 1
    /\ list = <<>>
    /\ errCh = <<>>
    /\ mu = 0
    /\ wg = 0
    /\ attempt = [i \in 1..Len(cfg.Shards) |-> Idle]
    /\ dialed = [i \in 1..Len(cfg.Shards) |-> <<>>]
    /\ ret = [cluster |-> NoCluster, err |-> Nil]
    /\ call = [c \in Callers |-> NoCall]
    /\ task = [c \in Callers |-> <<>>]

InitConnect == ConnectFrom(Configs)

\* ---------------------------------------------------------------- Connect
Return(cluster, err) ==
    /\ pc' = "done"
    /\ ret' = [cluster |-> cluster, err |-> err]

\* the checks without the one of the empty config list
ConnectChecksMutNoEmptyCheck ==
    /\ pc = "start"
    /\ IF ~areShardsUnique(cfg.Shards)
       THEN Return(NoCluster, "shard configurations are not unique")
       ELSE IF ~cfg.Connect
       THEN Return(NoCluster, "connect func cannot be nil")
       ELSE pc' = "loop" /\ ret' = ret
    /\ UNCHANGED <<cfg, next, list, errCh, mu, wg, attempt, dialed, call, task>>

\* the checks without the one of cfg.Connect
ConnectChecksMutNoNilCheck ==
    /\ pc = "start"
    /\ IF Len(cfg.Shards) = 0
       THEN Return(NoCluster, "at least one shard config is required")
       ELSE IF ~areShardsUnique(cfg.Shards)
       THEN Return(NoCluster, "shard configurations are not unique")
       ELSE pc' = "loop" /\ ret' = ret
    /\ UNCHANGED <<cfg, next, list, errCh, mu, wg, attempt, dialed, call, task>>

\* the checks with the one of cfg.Connect before the one of uniqueness
ConnectChecksMutNilFirst ==
    /\ pc = "start"
    /\ IF Len(cfg.Shards) = 0
       THEN Return(NoCluster, "at least one shard config is required")
       ELSE IF ~cfg.Connect
       THEN Return(NoCluster, "connect func cannot be nil")
       ELSE IF ~areShardsUnique(cfg.Shards)
       THEN Return(NoCluster, "shard configurations are not unique")
       ELSE pc' = "loop" /\ ret' = ret
    /\ UNCHANGED <<cfg, next, list, errCh, mu, wg, attempt, dialed, call, task>>

\* lines 17-43: the three checks before the loop
ConnectChecks ==
    /\ pc = "start"
    /\ IF Len(cfg.Shards) = 0
       THEN Return(NoCluster, "at least one shard config is required")
       ELSE IF ~areShardsUnique(cfg.Shards)
       THEN Return(NoCluster, "shard configurations are not unique")
       ELSE IF ~cfg.Connect
       THEN Return(NoCluster, "connect func cannot be nil")
       ELSE pc' = "loop" /\ ret' = ret
    /\ UNCHANGED <<cfg, next, list, errCh, mu, wg, attempt, dialed, call, task>>

\* lines 44-61: one iteration of the loop: validate the config, then
\* wg.Add(1) and start its goroutine
ConnectLoop ==
    /\ pc = "loop"
    /\ IF next > Len(cfg.Shards)
       THEN /\ pc' = "wait"
            /\ UNCHANGED <<ret, wg, attempt, next>>
       ELSE IF valid(cfg.Shards[next]) # Nil
       THEN /\ Return(NoCluster, valid(cfg.Shards[next]))
            /\ UNCHANGED <<wg, attempt, next>>
       ELSE /\ wg' = wg + 1
            /\ attempt' = [attempt EXCEPT ![next] =
                              [st |-> "spawned", id |-> cfg.Shards[next].ID,
                               dsn |-> cfg.Shards[next].Addr, err |-> Nil,
                               ctx |-> Nil]]
            /\ next' = next + 1
            /\ UNCHANGED <<pc, ret>>
    /\ UNCHANGED <<cfg, list, errCh, mu, dialed, call, task>>

\* a Connect that passes cfg.Context on as it is
ctxMutNoDefault == cfg.Context

\* lines 31, 36-38: the context of the attempts
ctx == IF cfg.Context = Nil THEN Background ELSE cfg.Context

\* a goroutine that calls cfg.Connect a second time
AttemptCallMutTwice(i) ==
    /\ attempt[i].st = "spawned"
    /\ attempt' = [attempt EXCEPT ![i].st = "connecting", ![i].ctx = ctx]
    /\ dialed' = [dialed EXCEPT ![i] = @ \o <<attempt[i].dsn, attempt[i].dsn>>]
    /\ UNCHANGED <<cfg, pc, next, list, errCh, mu, wg, ret, call, task>>

\* line 51: the goroutine calls cfg.Connect(ctx, dsn)
AttemptCall(i) ==
    /\ attempt[i].st = "spawned"
    /\ attempt' = [attempt EXCEPT ![i].st = "connecting", ![i].ctx = ctx]
    /\ dialed' = [dialed EXCEPT ![i] = Append(@, attempt[i].dsn)]
    /\ UNCHANGED <<cfg, pc, next, list, errCh, mu, wg, ret, call, task>>

\* the error of the attempt for config i, when cfg.Connect fails
ConnErr(i) == "connect error " \o ToString(i)

\* line 51: cfg.Connect returns, a connection or an error
AttemptReturn(i) ==
    /\ attempt[i].st = "connecting"
    /\ \E ok \in BOOLEAN :
         attempt' = [attempt EXCEPT ![i] =
            IF ok THEN [@ EXCEPT !.st = "connected"]
                  ELSE [@ EXCEPT !.st = "sending", !.err = ConnErr(i)]]
    /\ UNCHANGED <<cfg, pc, next, list, errCh, mu, wg, dialed, ret, call, task>>

\* line 53: errCh <- err, which blocks while the channel is full
AttemptSend(i) ==
    /\ attempt[i].st = "sending"
    /\ Len(errCh) < Len(cfg.Shards)
    /\ errCh' = Append(errCh, attempt[i].err)
    /\ attempt' = [attempt EXCEPT ![i].st = "exiting"]
    /\ UNCHANGED <<cfg, pc, next, list, mu, wg, dialed, ret, call, task>>

\* a goroutine that appends without the mutex
AttemptLockMutNoMutex(i) ==
    /\ attempt[i].st = "connected"
    /\ mu' = i
    /\ attempt' = [attempt EXCEPT ![i].st = "locked"]
    /\ UNCHANGED <<cfg, pc, next, list, errCh, wg, dialed, ret, call, task>>

\* line 57: mu.Lock()
AttemptLock(i) ==
    /\ attempt[i].st = "connected"
    /\ mu = 0
    /\ mu' = i
    /\ attempt' = [attempt EXCEPT ![i].st = "locked"]
    /\ UNCHANGED <<cfg, pc, next, list, errCh, wg, dialed, ret, call, task>>

\* lines 56, 58: c.list = append(c.list, &shard{id, conn})
AttemptAppend(i) ==
    /\ attempt[i].st = "locked"
    /\ list' = Append(list, [id |-> attempt[i].id,
                            conn |-> Opened(attempt[i].ctx, attempt[i].dsn)])
    /\ attempt' = [attempt EXCEPT ![i].st = "appended"]
    /\ UNCHANGED <<cfg, pc, next, errCh, mu, wg, dialed, ret, call, task>>

\* line 59: mu.Unlock()
AttemptUnlock(i) ==
    /\ attempt[i].st = "appended"
    /\ mu' = 0
    /\ attempt' = [attempt EXCEPT ![i].st = "exiting"]
    /\ UNCHANGED <<cfg, pc, next, list, errCh, wg, dialed, ret, call, task>>

\* line 50: the deferred wg.Done()
AttemptDone(i) ==
    /\ attempt[i].st = "exiting"
    /\ wg' = wg - 1
    /\ attempt' = [attempt EXCEPT ![i].st = "done"]
    /\ UNCHANGED <<cfg, pc, next, list, errCh, mu, dialed, ret, call, task>>

\* a Connect that always binds the default strategy
CalcMutAlwaysDefault == "default"

\* lines 39-43: the strategy of the Cluster
calc == IF cfg.Strategy # Nil THEN cfg.Strategy ELSE "default"

\* Connect without the read of errCh: it returns the shards that connected
ConnectWaitMutIgnoreErrors ==
    /\ pc = "wait"
    /\ wg = 0
    /\ list' = sortById(list)
    /\ Return([list |-> list', calc |-> calc], Nil)
    /\ UNCHANGED <<cfg, next, errCh, mu, wg, attempt, dialed, call, task>>

\* a Connect that returns the shards that connected along with the error
ConnectWaitMutPartial ==
    /\ pc = "wait"
    /\ wg = 0
    /\ IF errCh # <<>>
       THEN /\ Return([list |-> list, calc |-> calc], Head(errCh))
            /\ errCh' = Tail(errCh)
            /\ list' = list
       ELSE /\ list' = sortById(list)
            /\ Return([list |-> list', calc |-> calc], Nil)
            /\ errCh' = errCh
    /\ UNCHANGED <<cfg, next, mu, wg, attempt, dialed, call, task>>

\* lines 62-70: wg.Wait(), close(errCh), the read of the first error, sort
ConnectWait ==
    /\ pc = "wait"
    /\ wg = 0
    /\ IF errCh # <<>>
       THEN /\ Return(NoCluster, Head(errCh))
            /\ errCh' = Tail(errCh)
            /\ list' = list
       ELSE /\ list' = sortById(list)
            /\ Return([list |-> list', calc |-> calc], Nil)
            /\ errCh' = errCh
    /\ UNCHANGED <<cfg, next, mu, wg, attempt, dialed, call, task>>

Attempts == 1..Len(cfg.Shards)

NextConnect ==
    \/ ConnectChecks
    \/ ConnectLoop
    \/ ConnectWait
    \/ \E i \in Attempts : AttemptCall(i)
    \/ \E i \in Attempts : AttemptReturn(i)
    \/ \E i \in Attempts : AttemptSend(i)
    \/ \E i \in Attempts : AttemptLock(i)
    \/ \E i \in Attempts : AttemptAppend(i)
    \/ \E i \in Attempts : AttemptUnlock(i)
    \/ \E i \in Attempts : AttemptDone(i)

SpecConnect == InitConnect /\ [][NextConnect]_vars

\* ---------------------------------------------------------------- hash
\* A uint64 is the set of the positions of its one bits, 0 the lowest.
Bits8(b) == { k \in 0..7 : (b \div (2^k)) % 2 = 1 }

AllOnes == 0..63

\* A ^ B, as an enumerated set of bit positions
Xor(A, B) == { k \in AllOnes : (k \in A) # (k \in B) }

ShiftRight1(A) == { k - 1 : k \in A \ {0} }

\* crc64.ISO = 0xD800000000000000
ISOPoly == {63, 62, 60, 59}

\* the eight table steps one input byte stands for
RECURSIVE crcShift(_, _)
crcShift(crc, n) ==
    IF n = 0 THEN crc
    ELSE crcShift(IF 0 \in crc THEN Xor(ShiftRight1(crc), ISOPoly)
                               ELSE ShiftRight1(crc), n - 1)

\* crc64.update: crc = tab[byte(crc)^v] ^ (crc >> 8) for each byte v
RECURSIVE crcUpdate(_, _)
crcUpdate(crc, p) ==
    IF p = <<>> THEN crc
    ELSE crcUpdate(crcShift(Xor(crc, Bits8(Head(p))), 8), Tail(p))

\* a Checksum that starts from 0 instead of ^0
ChecksumMutZeroStart(p) == Xor(AllOnes, crcUpdate({}, p))

\* crc64.Checksum(data, MakeTable(ISO)): ^update(^0, data)
Checksum(p) == Xor(AllOnes, crcUpdate(AllOnes, p))

\* an AppendUint that writes the lowest digit first
RECURSIVE AppendUintMutLowFirst(_)
AppendUintMutLowFirst(n) ==
    IF n < 10 THEN << 48 + n >>
    ELSE <<48 + (n % 10)>> \o AppendUintMutLowFirst(n \div 10)

\* strconv.AppendUint(nil, i, 10): the ASCII codes of the decimal digits
RECURSIVE AppendUint(_)
AppendUint(n) ==
    IF n < 10 THEN << 48 + n >>
    ELSE Append(AppendUint(n \div 10), 48 + (n % 10))

\* defaultHash.Sum for a uint64 key
Sum(id) == Checksum(AppendUint(id))

\* strconv.AppendInt(nil, i, 10): a minus sign before the digits of a
\* negative number
AppendInt(n) == IF n < 0 THEN <<45>> \o AppendUint(0 - n) ELSE AppendUint(n)

\* defaultHash.Sum for a key of any of the four key types; a string and a
\* byte slice are the sequence of their bytes
SumOf(key) ==
    CASE key.kind = "int64" -> Checksum(AppendInt(key.val))
      [] key.kind = "uint64" -> Checksum(AppendUint(key.val))
      [] key.kind = "string" -> Checksum(key.val)
      [] key.kind = "bytes" -> Checksum(key.val)

\* 2^k mod n
RECURSIVE pow2mod(_, _)
pow2mod(k, n) == IF k = 0 THEN 1 % n ELSE (2 * pow2mod(k - 1, n)) % n

\* x % n for a uint64 x given by its bits
RECURSIVE modBits(_, _)
modBits(A, n) ==
    IF A = {} THEN 0
    ELSE LET k == CHOOSE x \in A : TRUE
         IN  (pow2mod(k, n) + modBits(A \ {k}, n)) % n

\* the keys the cluster operations are called with
Keys == {1, 2, 4}

\* the keys Map is called with: one more, which the default strategy routes
\* to the shard of key 1 when there are three shards
MapKeys == Keys \cup {7}

\* the keys of scenario A of the spec and of Test_defaultHash
ScenarioKeys == {122, 123}

\* Sum of every key, computed once
sums == [k \in MapKeys \cup ScenarioKeys |-> Sum(k)]

\* ---- the keys Sum is tried with
\* longest string key
MaxDigits == 3

\* the bytes of the string keys: the digits 0 to 3
DigitBytes == {48, 49, 50, 51}

HashStrings == SeqsUpTo(DigitBytes, MaxDigits)

\* the number a string of digits stands for
RECURSIVE DecimalValue(_)
DecimalValue(str) ==
    IF str = <<>> THEN 0
    ELSE 10 * DecimalValue(SubSeq(str, 1, Len(str) - 1)) + (str[Len(str)] - 48)

\* the numbers written with those digits, as keys of both integer types,
\* and their negatives as int64 keys
HashNumbers == { DecimalValue(str) : str \in HashStrings }

HashKeys ==
    [kind : {"int64"}, val : HashNumbers \cup { 0 - n : n \in HashNumbers }]
        \cup [kind : {"uint64"}, val : HashNumbers]
        \cup [kind : {"string", "bytes"}, val : HashStrings]

\* Sum of every such key, computed once
digests == [key \in HashKeys |-> SumOf(key)]

\* the lengths of the shard lists of the specifications
SlotLens == 1..(MaxCfg + MaxShards)

\* c.hash.Sum(key) % uint64(n) for the keys and those lengths, computed once
slots == [k \in DOMAIN sums |-> [n \in SlotLens |-> modBits(sums[k], n)]]

\* a Find that ignores the key
FindMutFirst(key, shards) == shards[1]

\* defaultStrategy.Find: shards[int(Sum(key) % uint64(len(shards)))]
Find(key, shards) ==
    LET n == Len(shards)
    IN  shards[(IF n \in SlotLens THEN slots[key][n] ELSE modBits(sums[key], n)) + 1]

\* dummyStrategy.Find of the tests: &shard{}, a new shard with the zero id and
\* the zero connection
dummyFind(key, shards) == [id |-> 0, conn |-> <<>>]

\* a One that always uses the strategy of the tests
OneMutDummy(c, key) == dummyFind(key, c.list)

\* cluster.One: c.calc.Find(key, c.list)
One(c, key) ==
    IF c.calc = "dummy" THEN dummyFind(key, c.list) ELSE Find(key, c.list)

\* res[s] = v in a Go map
Put(res, s, v) == [x \in DOMAIN res \cup {s} |-> IF x = s THEN v ELSE res[x]]

\* a loop that puts each key in front of its group
RECURSIVE mapFromMutPrepend(_, _, _, _)
mapFromMutPrepend(c, ids, i, res) ==
    IF i > Len(ids) THEN res
    ELSE LET s == One(c, ids[i])
             old == IF s \in DOMAIN res THEN res[s] ELSE <<>>
         IN  mapFromMutPrepend(c, ids, i + 1, Put(res, s, <<ids[i]>> \o old))

\* cluster.Map: the loop over ids from index i on, res the map so far
RECURSIVE mapFrom(_, _, _, _)
mapFrom(c, ids, i, res) ==
    IF i > Len(ids) THEN res
    ELSE LET s == One(c, ids[i])
             old == IF s \in DOMAIN res THEN res[s] ELSE <<>>
         IN  mapFrom(c, ids, i + 1, Put(res, s, Append(old, ids[i])))

\* a Map whose loop skips the first key
MapMutSkipFirst(c, ids) == mapFrom(c, ids, 2, <<>>)

\* a Map that starts with an empty group for every shard of the Cluster
MapMutPreallocate(c, ids) ==
    mapFrom(c, ids, 1, [s \in { c.list[k] : k \in 1..Len(c.list) } |-> <<>>])

Map(c, ids) == mapFrom(c, ids, 1, <<>>)

\* ---------------------------------------------------------------- Each, ByKeys
\* the Cluster the callers hold: the one Connect returned
Ready == pc = "done" /\ ret.err = Nil

\* a goroutine of Each or ByKeys: its position, the keys it was started
\* with, the error fn returned to it, and how often it called fn
Spawned(keys) == [st |-> "spawned", keys |-> keys, err |-> Nil, calls |-> 0]

\* the error fn returns for shard s in the call of caller c, when it fails
OpErr(c, s) == "op error " \o c \o " " \o ToString(s.id)

\* an Each whose channel holds one error
EachCallMutSmallChan(c) ==
    /\ Ready
    /\ call[c].pc = "idle"
    /\ call' = [call EXCEPT ![c] =
          [NoCall EXCEPT !.op = "Each", !.pc = "loop", !.cap = 1]]
    /\ UNCHANGED <<task, connectVars>>

\* line 192: Each makes the channel and the WaitGroup
EachCall(c) ==
    /\ Ready
    /\ call[c].pc = "idle"
    /\ call' = [call EXCEPT ![c] =
          [NoCall EXCEPT !.op = "Each", !.pc = "loop",
                         !.cap = Len(ret.cluster.list)]]
    /\ UNCHANGED <<task, connectVars>>

\* a loop of Each that stops starting goroutines once an error is in errCh
EachLoopMutFailFast(c) ==
    /\ call[c].op = "Each"
    /\ call[c].pc = "loop"
    /\ IF call[c].i > Len(ret.cluster.list) \/ call[c].errCh # <<>>
       THEN /\ call' = [call EXCEPT ![c].pc = "wait"]
            /\ task' = task
       ELSE /\ call' = [call EXCEPT ![c].wg = @ + 1, ![c].i = @ + 1]
            /\ task' = [task EXCEPT ![c] =
                  Put(@, ret.cluster.list[call[c].i], Spawned(<<>>))]
    /\ UNCHANGED connectVars

\* lines 194-202: one iteration of the loop over c.list
EachLoop(c) ==
    /\ call[c].op = "Each"
    /\ call[c].pc = "loop"
    /\ IF call[c].i > Len(ret.cluster.list)
       THEN /\ call' = [call EXCEPT ![c].pc = "wait"]
            /\ task' = task
       ELSE /\ call' = [call EXCEPT ![c].wg = @ + 1, ![c].i = @ + 1]
            /\ task' = [task EXCEPT ![c] =
                  Put(@, ret.cluster.list[call[c].i], Spawned(<<>>))]
    /\ UNCHANGED connectVars

\* lines 224-226: ByKeys computes the Map and makes the channel
ByKeysCall(c, ids) ==
    /\ Ready
    /\ call[c].pc = "idle"
    /\ LET m == Map(ret.cluster, ids)
       IN  call' = [call EXCEPT ![c] =
              [NoCall EXCEPT !.op = "ByKeys", !.pc = "loop", !.ids = ids,
                             !.m = m, !.cap = Cardinality(DOMAIN m)]]
    /\ UNCHANGED <<task, connectVars>>

\* a loop over the shards of the Cluster instead of the groups of the map
ByKeysLoopMutAllShards(c) ==
    /\ call[c].op = "ByKeys"
    /\ call[c].pc = "loop"
    /\ LET all == { ret.cluster.list[k] : k \in 1..Len(ret.cluster.list) }
           left == all \ DOMAIN task[c]
       IN  IF left = {}
           THEN /\ call' = [call EXCEPT ![c].pc = "wait"]
                /\ task' = task
           ELSE \E s \in left :
                /\ call' = [call EXCEPT ![c].wg = @ + 1]
                /\ task' = [task EXCEPT ![c] = Put(@, s,
                      Spawned(IF s \in DOMAIN call[c].m THEN call[c].m[s] ELSE <<>>))]
    /\ UNCHANGED connectVars

\* lines 227-235: one iteration of the loop over the map, whose order Go
\* leaves open
ByKeysLoop(c) ==
    /\ call[c].op = "ByKeys"
    /\ call[c].pc = "loop"
    /\ LET left == DOMAIN call[c].m \ DOMAIN task[c]
       IN  IF left = {}
           THEN /\ call' = [call EXCEPT ![c].pc = "wait"]
                /\ task' = task
           ELSE \E s \in left :
                /\ call' = [call EXCEPT ![c].wg = @ + 1]
                /\ task' = [task EXCEPT ![c] = Put(@, s, Spawned(call[c].m[s]))]
    /\ UNCHANGED connectVars

\* lines 198, 231: the goroutine calls fn
TaskCall(c, s) ==
    /\ task[c][s].st = "spawned"
    /\ task' = [task EXCEPT ![c][s].st = "running", ![c][s].calls = @ + 1]
    /\ UNCHANGED <<call, connectVars>>

\* lines 198, 231: fn returns, nil or an error
TaskReturn(c, s) ==
    /\ task[c][s].st = "running"
    /\ \E ok \in BOOLEAN :
         task' = [task EXCEPT ![c][s] =
            IF ok THEN [@ EXCEPT !.st = "exiting"]
                  ELSE [@ EXCEPT !.st = "sending", !.err = OpErr(c, s)]]
    /\ UNCHANGED <<call, connectVars>>

\* a goroutine that drops the error of fn
TaskSendMutDrop(c, s) ==
    /\ task[c][s].st = "sending"
    /\ task' = [task EXCEPT ![c][s].st = "exiting"]
    /\ UNCHANGED <<call, connectVars>>

\* a goroutine that sends on one channel all the calls share
TaskSendMutShared(c, s) ==
    /\ task[c][s].st = "sending"
    /\ Len(call["c1"].errCh) < call["c1"].cap
    /\ call' = [call EXCEPT !["c1"].errCh = Append(@, task[c][s].err)]
    /\ task' = [task EXCEPT ![c][s].st = "exiting"]
    /\ UNCHANGED connectVars

\* lines 199, 232: errCh <- err, which blocks while the channel is full
TaskSend(c, s) ==
    /\ task[c][s].st = "sending"
    /\ Len(call[c].errCh) < call[c].cap
    /\ call' = [call EXCEPT ![c].errCh = Append(@, task[c][s].err)]
    /\ task' = [task EXCEPT ![c][s].st = "exiting"]
    /\ UNCHANGED connectVars

\* a goroutine that exits without wg.Done()
TaskDoneMutNoDone(c, s) ==
    /\ task[c][s].st = "exiting"
    /\ task' = [task EXCEPT ![c][s].st = "done"]
    /\ UNCHANGED <<call, connectVars>>

\* lines 197, 230: the deferred wg.Done()
TaskDone(c, s) ==
    /\ task[c][s].st = "exiting"
    /\ call' = [call EXCEPT ![c].wg = @ - 1]
    /\ task' = [task EXCEPT ![c][s].st = "done"]
    /\ UNCHANGED connectVars

\* a return without wg.Wait()
CallWaitMutNoBarrier(c) ==
    /\ call[c].pc = "wait"
    /\ call' = [call EXCEPT
          ![c].pc = "returned",
          ![c].err = IF call[c].errCh = <<>> THEN Nil ELSE Head(call[c].errCh),
          ![c].errCh = IF @ = <<>> THEN @ ELSE Tail(@)]
    /\ UNCHANGED <<task, connectVars>>

\* a return of the last error of errCh, wrapped
CallWaitMutWrap(c) ==
    /\ call[c].pc = "wait"
    /\ call[c].wg = 0
    /\ call' = [call EXCEPT
          ![c].pc = "returned",
          ![c].err = IF call[c].errCh = <<>> THEN Nil
                     ELSE "failed: " \o Head(call[c].errCh),
          ![c].errCh = IF @ = <<>> THEN @ ELSE Tail(@)]
    /\ UNCHANGED <<task, connectVars>>

\* a return of the error sent last
CallWaitMutLastError(c) ==
    /\ call[c].pc = "wait"
    /\ call[c].wg = 0
    /\ call' = [call EXCEPT
          ![c].pc = "returned",
          ![c].err = IF call[c].errCh = <<>> THEN Nil
                     ELSE call[c].errCh[Len(call[c].errCh)],
          ![c].errCh = IF @ = <<>> THEN @ ELSE Tail(@)]
    /\ UNCHANGED <<task, connectVars>>

\* lines 203-205, 236-238: wg.Wait(), close(errCh), return <-errCh
CallWait(c) ==
    /\ call[c].pc = "wait"
    /\ call[c].wg = 0
    /\ call' = [call EXCEPT
          ![c].pc = "returned",
          ![c].err = IF call[c].errCh = <<>> THEN Nil ELSE Head(call[c].errCh),
          ![c].errCh = IF @ = <<>> THEN @ ELSE Tail(@)]
    /\ UNCHANGED <<task, connectVars>>

\* ---------------------------------------------------------------- One, All, Map
\* a One that returns the last shard while a goroutine of a fan-out runs
OneCallMutBusy(c, key) ==
    /\ Ready
    /\ call[c].pc = "idle"
    /\ call' = [call EXCEPT ![c] =
          [NoCall EXCEPT !.op = "One", !.pc = "returned", !.ids = <<key>>,
                         !.out = IF \E x \in Callers : task[x] # <<>>
                                 THEN ret.cluster.list[Len(ret.cluster.list)]
                                 ELSE One(ret.cluster, key)]]
    /\ UNCHANGED <<task, connectVars>>

\* lines 186-188: a call of One, which returns at once
OneCall(c, key) ==
    /\ Ready
    /\ call[c].pc = "idle"
    /\ call' = [call EXCEPT ![c] =
          [NoCall EXCEPT !.op = "One", !.pc = "returned", !.ids = <<key>>,
                         !.out = One(ret.cluster, key)]]
    /\ UNCHANGED <<task, connectVars>>

\* an All that reverses c.list in place before it returns it
AllCallMutReverse(c) ==
    /\ Ready
    /\ call[c].pc = "idle"
    /\ call' = [call EXCEPT ![c] =
          [NoCall EXCEPT !.op = "All", !.pc = "returned",
                         !.out = Len(ret.cluster.list)]]
    /\ list' = [k \in 1..Len(list) |-> list[Len(list) + 1 - k]]
    /\ ret' = [ret EXCEPT !.cluster.list = list']
    /\ UNCHANGED <<task, cfg, pc, next, errCh, mu, wg, attempt, dialed>>

\* lines 181-183: a call of All. The slice it returns is c.list itself: it
\* shares the array of c.list, and only its length (out) is the caller's own
AllCall(c) ==
    /\ Ready
    /\ call[c].pc = "idle"
    /\ call' = [call EXCEPT ![c] =
          [NoCall EXCEPT !.op = "All", !.pc = "returned",
                         !.out = Len(ret.cluster.list)]]
    /\ UNCHANGED <<task, connectVars>>

\* lines 210-220: a call of Map, which returns at once
MapCall(c, ids) ==
    /\ Ready
    /\ call[c].pc = "idle"
    /\ call' = [call EXCEPT ![c] =
          [NoCall EXCEPT !.op = "Map", !.pc = "returned", !.ids = ids,
                         !.m = Map(ret.cluster, ids)]]
    /\ UNCHANGED <<task, connectVars>>

\* lines 95-103: a call of ShardConfig.valid
ValidCall(c, sc) ==
    /\ call[c].pc = "idle"
    /\ call' = [call EXCEPT ![c] =
          [NoCall EXCEPT !.op = "valid", !.pc = "returned", !.ids = <<sc>>,
                         !.err = valid(sc)]]
    /\ UNCHANGED <<task, connectVars>>

\* lines 402-421: a call of ConnConfig.valid
ValidConnCall(c, cc) ==
    /\ call[c].pc = "idle"
    /\ call' = [call EXCEPT ![c] =
          [NoCall EXCEPT !.op = "validConn", !.pc = "returned", !.ids = <<cc>>,
                         !.err = validConn(cc)]]
    /\ UNCHANGED <<task, connectVars>>

\* lines 110-137: a call of ShardsConfigFromEnv in the environment env
EnvCall(c, env, prefix) ==
    /\ call[c].pc = "idle"
    /\ call' = [call EXCEPT ![c] =
          [NoCall EXCEPT !.op = "FromEnv", !.pc = "returned", !.ids = prefix,
                         !.m = env, !.out = ShardsConfigFromEnv(env, prefix)]]
    /\ UNCHANGED <<task, connectVars>>

\* lines 276-289: a call of Sum of the default hash
SumCall(c, key) ==
    /\ call[c].pc = "idle"
    /\ call' = [call EXCEPT ![c] =
          [NoCall EXCEPT !.op = "Sum", !.pc = "returned", !.ids = <<key>>,
                         !.out = digests[key]]]
    /\ UNCHANGED <<task, connectVars>>

\* the caller drops the result of its call and is free to call again
CallEnd(c) ==
    /\ call[c].pc = "returned"
    /\ call' = [call EXCEPT ![c] = NoCall]
    /\ task' = [task EXCEPT ![c] = <<>>]
    /\ UNCHANGED connectVars

\* the shards a caller can store: those of the Cluster and one of its own
Storable ==
    { ret.cluster.list[k] : k \in 1..Len(ret.cluster.list) } \cup {dummyFind(0, <<>>)}

\* the caller of All stores s in element k of the slice it got: all[k-1] = s.
\* The element is the one of c.list (line 182 returns c.list, not a copy)
AliasWrite(c, k, s) ==
    /\ call[c].op = "All"
    /\ call[c].pc = "returned"
    /\ k \in 1..call[c].out
    /\ list' = [list EXCEPT ![k] = s]
    /\ ret' = [ret EXCEPT !.cluster.list = list']
    /\ UNCHANGED <<cfg, pc, next, errCh, mu, wg, attempt, dialed, call, task>>

\* the caller of All truncates the slice it got: all = all[:n]
AliasTruncate(c, n) ==
    /\ call[c].op = "All"
    /\ call[c].pc = "returned"
    /\ n \in 0..(call[c].out - 1)
    /\ call' = [call EXCEPT ![c].out = n]
    /\ UNCHANGED <<task, connectVars>>

KeySeqs == SeqsUpTo(Keys, MaxKeys)

MapKeySeqs == SeqsUpTo(MapKeys, MaxKeys)

ClusterStep(c) ==
    \/ EachCall(c)
    \/ EachLoop(c)
    \/ \E ids \in KeySeqs : ByKeysCall(c, ids)
    \/ ByKeysLoop(c)
    \/ \E s \in DOMAIN task[c] : TaskCall(c, s)
    \/ \E s \in DOMAIN task[c] : TaskReturn(c, s)
    \/ \E s \in DOMAIN task[c] : TaskSend(c, s)
    \/ \E s \in DOMAIN task[c] : TaskDone(c, s)
    \/ CallWait(c)
    \/ \E key \in Keys : OneCall(c, key)
    \/ AllCall(c)
    \/ \E ids \in MapKeySeqs : MapCall(c, ids)
    \/ CallEnd(c)

\* the ids of those shards
ReadyIDs == (-1 .. (MaxShards - 1)) \ {0}

\* the address of the shard with the given id
AddrOf(id) == <<"h", ToString(id)>>

RECURSIVE ascending(_)
ascending(S) ==
    IF S = {} THEN <<>>
    ELSE LET m == CHOOSE x \in S : \A y \in S : x <= y
         IN  <<m>> \o ascending(S \ {m})

\* the state Connect leaves when it returns a Cluster for the configs with
\* the ids S and the given cfg.Strategy
ReadyFor(S, strategy) ==
    LET order == ascending(S)
        n == Len(order)
    IN  /\ cfg = [Shards |-> [i \in 1..n |-> [ID |-> order[i], Addr |-> AddrOf(order[i])]],
                  Connect |-> TRUE, Strategy |-> strategy, Context |-> Nil]
        /\ pc = "done"
        /\ next = n + 1
        /\ list = [i \in 1..n |-> [id |-> order[i], conn |-> Opened(ctx, AddrOf(order[i]))]]
        /\ errCh = <<>>
        /\ mu = 0
        /\ wg = 0
        /\ attempt = [i \in 1..n |-> [st |-> "done", id |-> order[i],
                                      dsn |-> AddrOf(order[i]), err |-> Nil,
                                      ctx |-> ctx]]
        /\ dialed = [i \in 1..n |-> <<AddrOf(order[i])>>]
        /\ ret = [cluster |-> [list |-> list, calc |-> calc], err |-> Nil]
        /\ call = [c \in Callers |-> NoCall]
        /\ task = [c \in Callers |-> <<>>]

InitCluster == \E S \in (SUBSET ReadyIDs) \ {{}} : ReadyFor(S, Nil)

NextCluster == ClusterStep("c1")

SpecCluster == InitCluster /\ [][NextCluster]_vars

\* ---- lookups on Clusters of either strategy
InitStrategy ==
    \E S \in (SUBSET ReadyIDs) \ {{}}, strategy \in Strategies : ReadyFor(S, strategy)

LookupStep(c) ==
    \/ \E key \in Keys : OneCall(c, key)
    \/ AllCall(c)
    \/ CallEnd(c)

NextStrategy == \E c \in Callers : LookupStep(c)

SpecStrategy == InitStrategy /\ [][NextStrategy]_vars

\* ---- a caller that writes to the slice All returned, and a second caller
NextAlias ==
    \/ AllCall("c1")
    \/ \E k \in 1..Len(list), s \in Storable : AliasWrite("c1", k, s)
    \/ \E n \in 0..Len(list) : AliasTruncate("c1", n)
    \/ CallEnd("c1")
    \/ LookupStep("c2")

SpecAlias == InitCluster /\ [][NextAlias]_vars

\* ---- two callers of one Cluster
\* most shards of a Cluster two callers share
MaxSharedShards == 2
\* longest key sequence of their calls
MaxSharedKeys == 1

SharedIDs == (-1 .. (MaxSharedShards - 1)) \ {0}

SharedKeySeqs == SeqsUpTo(MapKeys, MaxSharedKeys)

InitShared == \E S \in (SUBSET SharedIDs) \ {{}} : ReadyFor(S, Nil)

\* the first caller runs any operation, the second one looks shards up
NextShared ==
    \/ EachCall("c1")
    \/ EachLoop("c1")
    \/ \E ids \in SharedKeySeqs : ByKeysCall("c1", ids)
    \/ ByKeysLoop("c1")
    \/ \E s \in DOMAIN task["c1"] : TaskCall("c1", s)
    \/ \E s \in DOMAIN task["c1"] : TaskReturn("c1", s)
    \/ \E s \in DOMAIN task["c1"] : TaskSend("c1", s)
    \/ \E s \in DOMAIN task["c1"] : TaskDone("c1", s)
    \/ CallWait("c1")
    \/ \E key \in Keys : OneCall("c1", key)
    \/ CallEnd("c1")
    \/ \E key \in Keys : OneCall("c2", key)
    \/ AllCall("c2")
    \/ \E ids \in SharedKeySeqs : MapCall("c2", ids)
    \/ CallEnd("c2")

SpecShared == InitShared /\ [][NextShared]_vars

\* ---- Connect, then the operations on the Cluster it returned
\* longest config list of a Connect that is followed by operations
MaxFullCfg == 2

FullConfigs ==
    [Shards : SeqsUpTo([ID : {0, 1, 2}, Addr : {<<" ">>, <<"a">>, <<"b">>}], MaxFullCfg),
     Connect : BOOLEAN, Strategy : {Nil}, Context : {Nil}]

Init == InitConnect /\ cfg \in FullConfigs

Next == NextConnect \/ ClusterStep("c1")

Spec == Init /\ [][Next]_vars

\* ---- calls that need no Cluster: Connect has not been called
InitIdle == InitConnect /\ cfg = [Shards |-> <<>>, Connect |-> FALSE, Strategy |-> Nil,
                   Context |-> Nil]

NextValid ==
    \/ \E sc \in ValidShardConfigs : ValidCall("c1", sc)
    \/ CallEnd("c1")
    \/ \E cc \in ConnConfigs : ValidConnCall("c2", cc)
    \/ CallEnd("c2")

SpecValid == InitIdle /\ [][NextValid]_vars

NextEnv ==
    \/ \E env \in Envs, prefix \in PrefixArgs : EnvCall("c1", env, prefix)
    \/ CallEnd("c1")

SpecEnv == InitIdle /\ [][NextEnv]_vars

\* ---- the default hash, and scenario A: the shards 1, 2, 3
InitHash == ReadyFor({1, 2, 3}, Nil)

NextHash ==
    \/ \E key \in HashKeys : SumCall("c1", key)
    \/ CallEnd("c1")
    \/ \E key \in ScenarioKeys : OneCall("c2", key)
    \/ CallEnd("c2")

SpecHash == InitHash /\ [][NextHash]_vars

\* ---- Connect for 1..MaxShards valid configs, then Each and ByKeys
ErrConfigs ==
    { [Shards |-> [i \in 1..n |-> [ID |-> i, Addr |-> AddrOf(i)]],
       Connect |-> TRUE, Strategy |-> Nil, Context |-> Nil] : n \in 1..MaxShards }

InitErrors == ConnectFrom(ErrConfigs)

FanStep(c) ==
    \/ EachCall(c)
    \/ EachLoop(c)
    \/ \E ids \in KeySeqs : ByKeysCall(c, ids)
    \/ ByKeysLoop(c)
    \/ \E s \in DOMAIN task[c] : TaskCall(c, s)
    \/ \E s \in DOMAIN task[c] : TaskReturn(c, s)
    \/ \E s \in DOMAIN task[c] : TaskSend(c, s)
    \/ \E s \in DOMAIN task[c] : TaskDone(c, s)
    \/ CallWait(c)
    \/ CallEnd(c)

NextErrors == NextConnect \/ FanStep("c1")

SpecErrors == InitErrors /\ [][NextErrors]_vars

\* the same, where every step that can be taken is taken in the end: the Go
\* scheduler runs every goroutine that can run, and every call of
\* cfg.Connect and of fn returns. Only the calls of Each and ByKeys
\* themselves are left to the caller.
Fairness ==
    /\ WF_vars(ConnectChecks)
    /\ WF_vars(ConnectLoop)
    /\ WF_vars(ConnectWait)
    /\ WF_vars(\E i \in Attempts : AttemptCall(i))
    /\ WF_vars(\E i \in Attempts : AttemptReturn(i))
    /\ WF_vars(\E i \in Attempts : AttemptSend(i))
    /\ WF_vars(\E i \in Attempts : AttemptLock(i))
    /\ WF_vars(\E i \in Attempts : AttemptAppend(i))
    /\ WF_vars(\E i \in Attempts : AttemptUnlock(i))
    /\ WF_vars(\E i \in Attempts : AttemptDone(i))
    /\ WF_vars(EachLoop("c1"))
    /\ WF_vars(ByKeysLoop("c1"))
    /\ WF_vars(\E s \in DOMAIN task["c1"] : TaskCall("c1", s))
    /\ WF_vars(\E s \in DOMAIN task["c1"] : TaskReturn("c1", s))
    /\ WF_vars(\E s \in DOMAIN task["c1"] : TaskSend("c1", s))
    /\ WF_vars(\E s \in DOMAIN task["c1"] : TaskDone("c1", s))
    /\ WF_vars(CallWait("c1"))

SpecLive == InitErrors /\ [][NextErrors]_vars /\ Fairness

\* ---- Connect with either strategy, then lookups on the Cluster it returned
RouteConfigs ==
    [Shards : SeqsUpTo([ID : {0, 1, 2}, Addr : {<<" ">>, <<"a">>, <<"b">>}], MaxFullCfg),
     Connect : BOOLEAN, Strategy : Strategies, Context : {Nil}]

InitRoute == InitConnect /\ cfg \in RouteConfigs

NextRoute == NextConnect \/ LookupStep("c1")

SpecRoute == InitRoute /\ [][NextRoute]_vars

\* ---- two callers that both run Each and ByKeys on one Cluster
\* the ids of the shards of that Cluster: a third shard brings the two
\* fan-outs to some millions of states
PairIDs == {1, 2}

\* the key sequences of their calls of ByKeys
PairKeySeqs == SeqsUpTo({1, 2}, MaxSharedKeys)

InitPair == \E S \in (SUBSET PairIDs) \ {{}} : ReadyFor(S, Nil)

PairStep(c) ==
    \/ EachCall(c)
    \/ EachLoop(c)
    \/ \E ids \in PairKeySeqs : ByKeysCall(c, ids)
    \/ ByKeysLoop(c)
    \/ \E s \in DOMAIN task[c] : TaskCall(c, s)
    \/ \E s \in DOMAIN task[c] : TaskReturn(c, s)
    \/ \E s \in DOMAIN task[c] : TaskSend(c, s)
    \/ \E s \in DOMAIN task[c] : TaskDone(c, s)
    \/ CallWait(c)
    \/ CallEnd(c)

NextPair == PairStep("c1") \/ PairStep("c2")

SpecPair == InitPair /\ [][NextPair]_vars

\* ---- Connect with and without a context
CtxConfigs ==
    [Shards : SeqsUpTo([ID : {0, 1, 2}, Addr : {<<" ">>, <<"a">>, <<"b">>}], MaxFullCfg),
     Connect : BOOLEAN, Strategy : {Nil}, Context : Contexts]

InitContext == ConnectFrom(CtxConfigs)

NextContext == NextConnect \/ LookupStep("c1")

SpecContext == InitContext /\ [][NextContext]_vars

\* ---------------------------------------------------------------- properties
\* what the claims say of a config, stated without the operators above
Blank(addr) == \A k \in 1..Len(addr) : addr[k] \in Whitespace

FieldsValid(sc) == sc.ID # 0 /\ ~Blank(sc.Addr)

N == Len(cfg.Shards)

SharedID == \E i, j \in 1..N : i # j /\ cfg.Shards[i].ID = cfg.Shards[j].ID

SharedAddr == \E i, j \in 1..N : i # j /\ cfg.Shards[i].Addr = cfg.Shards[j].Addr

ValidUnique ==
    /\ N >= 1
    /\ \A i \in 1..N : FieldsValid(cfg.Shards[i])
    /\ ~SharedID
    /\ ~SharedAddr

Succeeded(i) == attempt[i].st = "done" /\ attempt[i].err = Nil

Failed(i) == attempt[i].err # Nil

NeverDialed == \A i \in 1..N : dialed[i] = <<>> /\ attempt[i].st = "idle"

ConfigError == ret.cluster = NoCluster /\ ret.err # Nil

\* C1: when Connect has returned for a valid, unique config list and every
\* attempt succeeded, it returned a Cluster and no error, and the shard list
\* holds exactly N shards, one per config id, in strictly ascending id order.
C1_ConnectSortedShards ==
    (pc = "done" /\ ValidUnique /\ \A i \in 1..N : Succeeded(i)) =>
        /\ ret.err = Nil
        /\ ret.cluster # NoCluster
        /\ Len(ret.cluster.list) = N
        /\ { ret.cluster.list[k].id : k \in 1..N } = { cfg.Shards[i].ID : i \in 1..N }
        /\ \A k \in 1..(N - 1) : ret.cluster.list[k].id < ret.cluster.list[k + 1].id

\* Connect returned a Cluster of three shards for configs given in descending
\* id order
C1_Witness ==
    /\ pc = "done"
    /\ ValidUnique
    /\ N = 3
    /\ \A i \in 1..N : Succeeded(i)
    /\ cfg.Shards[1].ID > cfg.Shards[2].ID
    /\ cfg.Shards[2].ID > cfg.Shards[3].ID
    /\ Len(ret.cluster.list) = 3

\* C2: with an empty config list, two configs sharing an id or two configs
\* sharing an address, the connect function is never invoked, and Connect
\* returns an error and no Cluster.
C2_RejectsEmptyAndDuplicates ==
    (N = 0 \/ SharedID \/ SharedAddr) =>
        /\ NeverDialed
        /\ pc = "done" => ConfigError

\* Connect returned for two valid configs with distinct ids and one address
C2_Witness ==
    /\ pc = "done"
    /\ N = 2
    /\ cfg.Connect
    /\ ~SharedID
    /\ SharedAddr
    /\ \A i \in 1..N : FieldsValid(cfg.Shards[i])
    /\ ConfigError

\* C3: when some config of the list fails per-field validation, the connect
\* function is invoked for no config of the list, and Connect returns a
\* configuration error.
C3_ValidationBeforeAnyAttempt ==
    (\E i \in 1..N : ~FieldsValid(cfg.Shards[i])) =>
        /\ NeverDialed
        /\ pc = "done" => ConfigError

\* C4: when Connect has returned, no attempt it launched is still running.
C4_ReturnsAfterAllAttempts ==
    pc = "done" => \A i \in 1..N : attempt[i].st \in {"idle", "done"}

\* C5: for a valid, unique config list with a connect function, Connect
\* returns a Cluster and no error exactly when every attempt succeeded;
\* otherwise it returns no Cluster and the unchanged error of one of the
\* failed attempts.
C5_ConnectErrorIsAnAttemptsError ==
    (pc = "done" /\ ValidUnique /\ cfg.Connect) =>
        /\ (ret.err = Nil) <=> (\A i \in 1..N : Succeeded(i))
        /\ (ret.cluster # NoCluster) <=> (ret.err = Nil)
        /\ ret.err # Nil =>
              /\ \E i \in 1..N : Failed(i) /\ ret.err = ConnErr(i)
              /\ ret.cluster = NoCluster

\* Connect returned the error of the third of three attempts, of which the
\* first succeeded and the second failed too
C5_Witness ==
    /\ pc = "done"
    /\ ValidUnique
    /\ N = 3
    /\ Succeeded(1)
    /\ Failed(2)
    /\ Failed(3)
    /\ ret.err = ConnErr(3)
    /\ ret.cluster = NoCluster
    /\ Len(list) = 1

\* C6: for a valid, unique config list with a connect function, the connect
\* function is never invoked twice for a config nor with another address
\* than the config's, and when Connect has returned it was invoked exactly
\* once for every config, whether or not a sibling attempt failed.
C6_ConnectCalledOncePerConfig ==
    (ValidUnique /\ cfg.Connect) =>
        /\ \A i \in 1..N : dialed[i] \in { <<>>, <<cfg.Shards[i].Addr>> }
        /\ pc = "done" => \A i \in 1..N : dialed[i] = <<cfg.Shards[i].Addr>>

\* the third attempt is calling the connect function when the error of the
\* first is already in the channel
C6_Witness ==
    /\ ValidUnique
    /\ N = 3
    /\ errCh = <<ConnErr(1)>>
    /\ attempt[3].st = "connecting"
    /\ dialed[3] = <<cfg.Shards[3].Addr>>
    /\ dialed[2] = <<>>

\* ---- Each and ByKeys
Returned(c, op) == call[c].op = op /\ call[c].pc = "returned"

FailedTasks(c) == { s \in DOMAIN task[c] : task[c][s].err # Nil }

ListShards == { ret.cluster.list[k] : k \in 1..Len(ret.cluster.list) }

\* C7: when Each has returned, its result is nil exactly when fn returned nil
\* on every shard, and an error exactly when fn failed on some shard.
C7_EachErrorIffSomeTaskFailed ==
    \A c \in Callers :
        Returned(c, "Each") =>
            /\ (call[c].err = Nil) <=> (FailedTasks(c) = {})
            /\ (call[c].err # Nil) <=> (\E s \in ListShards : s \in FailedTasks(c))

\* Each returned an error on three shards of which one failed
C7_Witness ==
    /\ Returned("c1", "Each")
    /\ Len(ret.cluster.list) = 3
    /\ Cardinality(FailedTasks("c1")) = 1
    /\ call["c1"].err # Nil

\* C8: when ByKeys has returned, its result is nil exactly when fn returned
\* nil for every group of Map(ids), and otherwise it is the error fn returned
\* for one of the groups.
C8_ByKeysErrorIffSomeGroupFailed ==
    \A c \in Callers :
        Returned(c, "ByKeys") =>
            LET groups == DOMAIN Map(ret.cluster, call[c].ids)
            IN  /\ (call[c].err = Nil) <=>
                       \A s \in groups : s \in DOMAIN task[c] /\ task[c][s].err = Nil
                /\ (call[c].err # Nil) <=>
                       \E s \in groups : s \in FailedTasks(c)
                /\ call[c].err # Nil =>
                       \E s \in groups : s \in FailedTasks(c) /\ call[c].err = OpErr(c, s)

\* ByKeys returned an error for keys of three groups of which two failed
C8_Witness ==
    /\ Returned("c1", "ByKeys")
    /\ Cardinality(DOMAIN call["c1"].m) = 3
    /\ Cardinality(FailedTasks("c1")) = 2
    /\ call["c1"].err # Nil

\* C9: Each never invokes fn twice on a shard, and when it has returned it
\* has invoked fn exactly once on every shard of the Cluster, whether or
\* not fn failed on some of them.
C9_EachCallsEveryShardOnce ==
    \A c \in Callers :
        call[c].op = "Each" =>
            /\ \A s \in DOMAIN task[c] : s \in ListShards /\ task[c][s].calls <= 1
            /\ call[c].pc = "returned" =>
                  \A s \in ListShards : s \in DOMAIN task[c] /\ task[c][s].calls = 1

\* Each returned after fn failed on the first of three shards and was invoked
\* on all three
C9_Witness ==
    /\ Returned("c1", "Each")
    /\ Len(ret.cluster.list) = 3
    /\ ret.cluster.list[1] \in FailedTasks("c1")
    /\ \A s \in ListShards : task["c1"][s].calls = 1

\* C10: when Each or ByKeys has returned, every goroutine the call started
\* has finished.
C10_ReturnsAfterAllTasks ==
    \A c \in Callers :
        call[c].pc = "returned" =>
            \A s \in DOMAIN task[c] : task[c][s].st = "done"

\* ByKeys returned for two groups, one of which failed
C10_Witness ==
    /\ Returned("c1", "ByKeys")
    /\ Cardinality(DOMAIN task["c1"]) = 2
    /\ Cardinality(FailedTasks("c1")) = 1
    /\ \A s \in DOMAIN task["c1"] : task["c1"][s].st = "done"

\* ---------------------------------------------------------------- C11..C20
\* the shards some key of ids routes to
Touched(ids) == { One(ret.cluster, ids[i]) : i \in 1..Len(ids) }

\* the keys of ids that route to shard s, in the order of ids
RoutedTo(ids, s) == SelectSeq(ids, LAMBDA k : One(ret.cluster, k) = s)

\* how often key k occurs in seq
Count(seq, k) == Cardinality({ i \in 1..Len(seq) : seq[i] = k })

\* how often key k occurs in the groups of m for the shards of S
RECURSIVE CountIn(_, _, _)
CountIn(m, S, k) ==
    IF S = {} THEN 0
    ELSE LET s == CHOOSE x \in S : TRUE
         IN  Count(m[s], k) + CountIn(m, S \ {s}, k)

\* the context the config stands for
GivenContext == IF cfg.Context = "ctx" THEN "ctx" ELSE "background"

\* the shard list as Connect built it from the configs
Built ==
    sortById([i \in 1..N |-> [id |-> cfg.Shards[i].ID,
                              conn |-> <<GivenContext>> \o cfg.Shards[i].Addr]])

\* C11: ByKeys starts goroutines only for shards some key routes to, so at
\* most as many as shards and as keys; each invokes fn at most once, with
\* the keys Map assigns to its shard; when ByKeys has returned, fn was
\* invoked exactly once for every shard a key routes to and for no other.
C11_ByKeysOneTaskPerTouchedShard ==
    \A c \in Callers :
        call[c].op = "ByKeys" =>
            LET ids == call[c].ids
            IN  /\ DOMAIN task[c] \subseteq Touched(ids)
                /\ Cardinality(DOMAIN task[c]) <= Len(ret.cluster.list)
                /\ Cardinality(DOMAIN task[c]) <= Len(ids)
                /\ \A s \in DOMAIN task[c] :
                      /\ s \in ListShards
                      /\ task[c][s].calls <= 1
                      /\ task[c][s].keys = Map(ret.cluster, ids)[s]
                      /\ task[c][s].keys = RoutedTo(ids, s)
                /\ call[c].pc = "returned" =>
                      /\ DOMAIN task[c] = Touched(ids)
                      /\ \A s \in DOMAIN task[c] : task[c][s].calls = 1

\* ByKeys returned for three keys that route to two of three shards
C11_Witness ==
    /\ Returned("c1", "ByKeys")
    /\ Len(ret.cluster.list) = 3
    /\ Len(call["c1"].ids) = 3
    /\ Cardinality(DOMAIN task["c1"]) = 2
    /\ \A s \in DOMAIN task["c1"] : task["c1"][s].calls = 1

\* C12: in the result of Map every key occurs in the groups together as often
\* as in the input, and every key of a group is one that One routes to the
\* shard of the group.
C12_MapKeepsEveryOccurrence ==
    \A c \in Callers :
        Returned(c, "Map") =>
            LET m == call[c].m
            IN  /\ \A k \in MapKeys : CountIn(m, DOMAIN m, k) = Count(call[c].ids, k)
                /\ \A s \in DOMAIN m :
                      \A i \in 1..Len(m[s]) : One(ret.cluster, m[s][i]) = s

\* Map returned two groups for three keys of which two are equal
C12_Witness ==
    /\ Returned("c1", "Map")
    /\ Len(call["c1"].ids) = 3
    /\ Cardinality(DOMAIN call["c1"].m) = 2
    /\ \E k \in MapKeys : Count(call["c1"].ids, k) = 2

\* C13: the groups of the result of Map are those of the shards some key
\* routes to, and each group is the subsequence of the input made of the
\* keys that route to its shard, in input order, duplicates kept.
C13_MapGroupsAreSubsequences ==
    \A c \in Callers :
        Returned(c, "Map") =>
            LET m == call[c].m
            IN  /\ DOMAIN m = Touched(call[c].ids)
                /\ \A s \in DOMAIN m : m[s] = RoutedTo(call[c].ids, s)

\* Map returned for <<7, 4, 1>> on three shards: 7 and 1 share the first
\* shard, with 4 of the second shard between them
C13_Witness ==
    /\ Returned("c1", "Map")
    /\ Len(ret.cluster.list) = 3
    /\ call["c1"].ids = <<7, 4, 1>>
    /\ call["c1"].m[ret.cluster.list[1]] = <<7, 1>>
    /\ call["c1"].m[ret.cluster.list[2]] = <<4>>

\* C14 as stated: One returns a shard of the list of the Cluster, whatever
\* the strategy of the Cluster.
C14_OneInListAnyStrategy ==
    \A c \in Callers :
        Returned(c, "One") => call[c].out \in ListShards

\* C14: on a Cluster with the default strategy, One returns a shard of the
\* list of the Cluster, the list All returns.
C14_OneInListDefaultStrategy ==
    \A c \in Callers :
        (Returned(c, "One") /\ ret.cluster.calc = "default") =>
            \E k \in 1..Len(ret.cluster.list) : call[c].out = ret.cluster.list[k]

\* One returned the third of three shards of a Cluster with the default
\* strategy, while the other caller holds the list All returned
C14_Witness ==
    /\ Returned("c1", "One")
    /\ Returned("c2", "All")
    /\ ret.cluster.calc = "default"
    /\ call["c2"].out = 3
    /\ call["c1"].out = ret.cluster.list[3]

\* the uint64 with the bits A, shifted right by k, mod n: Horner's rule from
\* the highest bit down
RECURSIVE HornerMod(_, _, _)
HornerMod(A, k, n) ==
    IF k > 63 THEN 0
    ELSE (2 * HornerMod(A, k + 1, n) + (IF k \in A THEN 1 ELSE 0)) % n

\* Sum(key) mod n by Horner's rule, for the keys and the list lengths of the
\* specifications, computed once
HornerSlots ==
    [key \in DOMAIN sums |-> [n \in SlotLens |-> HornerMod(sums[key], 0, n)]]

\* C15: on a Cluster with the default strategy, One(key) returns the shard
\* at index Sum(key) mod len of the list, which is in ascending id order, and
\* the index is within 0..len-1.
C15_DefaultOneIsSumModLen ==
    \A c \in Callers :
        (Returned(c, "One") /\ ret.cluster.calc = "default") =>
            LET shards == ret.cluster.list
                n == Len(shards)
                index == HornerSlots[call[c].ids[1]][n]
            IN  /\ n >= 1
                /\ index \in 0..(n - 1)
                /\ call[c].out = shards[index + 1]
                /\ \A i, j \in 1..n : i < j => shards[i].id < shards[j].id

\* One(2) returned the third of three shards (Sum(2) mod 3 = 2) and One(4)
\* the second (Sum(4) mod 3 = 1)
C15_Witness ==
    /\ Returned("c1", "One")
    /\ Returned("c2", "One")
    /\ ret.cluster.calc = "default"
    /\ Len(ret.cluster.list) = 3
    /\ call["c1"].ids = <<2>>
    /\ call["c1"].out = ret.cluster.list[3]
    /\ call["c2"].ids = <<4>>
    /\ call["c2"].out = ret.cluster.list[2]

\* C16: a result of One that a caller holds and a result of One for the same
\* key that a caller has after the next step are the same shard, and every
\* result of One is the shard the key selects in the list as Connect built
\* it, whatever the other caller is doing.
C16_OneSameShardForSameKey ==
    [][\A c, d \in Callers :
          /\ (Returned(c, "One") /\ Returned(d, "One")' /\ call[c].ids = call'[d].ids)
                => call'[d].out = call[c].out
          /\ Returned(d, "One")' => call'[d].out = Find(call'[d].ids[1], Built)]_vars

\* One returned while two goroutines of an Each of the other caller run
C16_Witness ==
    /\ Returned("c2", "One")
    /\ call["c1"].op = "Each"
    /\ Len(ret.cluster.list) = 2
    /\ \A s \in ListShards : s \in DOMAIN task["c1"] /\ task["c1"][s].st = "running"

\* C17: no step of One, All, Map, Each or ByKeys of any caller changes the
\* shard list or the strategy of the Cluster Connect returned.
C17_OperationsKeepCluster ==
    [][Ready => /\ ret'.cluster.list = ret.cluster.list
                /\ ret'.cluster.calc = ret.cluster.calc
                /\ list' = list]_vars

\* a ByKeys and a Map of two callers have run on the list as Connect built it
C17_Witness ==
    /\ Returned("c1", "ByKeys")
    /\ Returned("c2", "Map")
    /\ call["c2"].ids # <<>>
    /\ Len(ret.cluster.list) = 2
    /\ ret.cluster.list = Built

\* C18 as stated: whatever a caller does with the slice All returned, the
\* Cluster keeps the shard list Connect built.
C18_AllResultCannotChangeList ==
    Ready => ret.cluster.list = Built

\* C19: Connect with valid, unique configs and no connect function starts
\* no attempt, and when it has returned it returned the error of the missing
\* connect function and no Cluster.
C19_NilConnectIsConfigError ==
    (ValidUnique /\ ~cfg.Connect) =>
        /\ NeverDialed
        /\ wg = 0
        /\ pc = "done" => (ConfigError /\ ret.err = "connect func cannot be nil")

\* Connect returned for three valid, unique configs and no connect function
C19_Witness ==
    /\ pc = "done"
    /\ N = 3
    /\ ValidUnique
    /\ ~cfg.Connect
    /\ ret.err = "connect func cannot be nil"

\* a Cluster and no error
OutcomeReady == ret.err = Nil /\ ret.cluster # NoCluster /\ Len(ret.cluster.list) >= 1

\* an error and no Cluster
OutcomeFailed == ret.err # Nil /\ ret.cluster = NoCluster

\* C20: when Connect has returned, its outcome is either a Cluster and no
\* error or an error and no Cluster, never both and never neither; and from
\* then on the outcome stays, and once it is a Cluster no step invokes
\* cfg.Connect or changes the shard list or the strategy.
C20_OneTerminalOutcomeAndReadyStable ==
    [][/\ pc' = "done" => (OutcomeReady' /\ ~OutcomeFailed') \/ (OutcomeFailed' /\ ~OutcomeReady')
       /\ pc = "done" => (pc' = "done" /\ ret' = ret)
       /\ Ready => (dialed' = dialed /\ list' = list /\ attempt' = attempt)]_vars

\* Connect returned a Cluster of two shards, each dialed once, and an Each on
\* it has returned an error
C20_Witness ==
    /\ Ready
    /\ OutcomeReady
    /\ Len(ret.cluster.list) = 2
    /\ \A i \in 1..N : Len(dialed[i]) = 1
    /\ Returned("c1", "Each")
    /\ call["c1"].err # Nil

\* ---------------------------------------------------------------- C21..C30
\* C21: a Cluster Connect returned is bound to cfg.Strategy when it is not
\* nil and to the default strategy when it is nil, and One on it returns what
\* that strategy finds in the id-ascending list, in whatever order the
\* attempts appended their shards.
C21_ClusterBoundToConfigStrategy ==
    Ready =>
        /\ cfg.Strategy # Nil => ret.cluster.calc = cfg.Strategy
        /\ cfg.Strategy = Nil => ret.cluster.calc = "default"
        /\ \A c \in Callers :
              Returned(c, "One") =>
                  IF cfg.Strategy = "dummy"
                  THEN call[c].out = dummyFind(call[c].ids[1], Built)
                  ELSE call[c].out = Built[HornerSlots[call[c].ids[1]][Len(Built)] + 1]

\* One returned the new shard of the supplied strategy on a Cluster of two
\* shards whose configs were given in descending id order
C21_Witness ==
    /\ Ready
    /\ cfg.Strategy = "dummy"
    /\ N = 2
    /\ cfg.Shards[1].ID > cfg.Shards[2].ID
    /\ Returned("c1", "One")
    /\ call["c1"].out = [id |-> 0, conn |-> <<>>]

\* the base-10 string of n: the digits that stand for n, without a leading 0
Decimal(n) ==
    CHOOSE str \in HashStrings :
        /\ str # <<>>
        /\ Len(str) = 1 \/ str[1] # 48
        /\ DecimalValue(str) = n

\* C22: Sum of a non-negative number n as int64 or uint64 is Sum of the
\* base-10 string of n and Sum of the bytes of that string, and Sum of a
\* string is Sum of its bytes.
C22_SumSameInEveryKeyType ==
    \A c \in Callers :
        Returned(c, "Sum") =>
            LET key == call[c].ids[1]
            IN  IF key.kind \in {"int64", "uint64"}
                THEN key.val >= 0 =>
                       /\ call[c].out = digests[[kind |-> "string", val |-> Decimal(key.val)]]
                       /\ call[c].out = digests[[kind |-> "bytes", val |-> Decimal(key.val)]]
                       /\ call[c].out = digests[[kind |-> "int64", val |-> key.val]]
                       /\ call[c].out = digests[[kind |-> "uint64", val |-> key.val]]
                ELSE /\ call[c].out = digests[[kind |-> "string", val |-> key.val]]
                     /\ call[c].out = digests[[kind |-> "bytes", val |-> key.val]]

\* Sum returned for the int64 key 123 what it returns for the string "123",
\* which is not what it returns for "023" or for the int64 key -123
C22_Witness ==
    /\ Returned("c1", "Sum")
    /\ call["c1"].ids[1] = [kind |-> "int64", val |-> 123]
    /\ call["c1"].out = digests[[kind |-> "string", val |-> <<49, 50, 51>>]]
    /\ call["c1"].out # digests[[kind |-> "string", val |-> <<48, 50, 51>>]]
    /\ call["c1"].out # digests[[kind |-> "int64", val |-> 0 - 123]]

\* a decimal number, lowest digit first, doubled and increased by b
RECURSIVE DoubleAdd(_, _)
DoubleAdd(dec, b) ==
    IF dec = <<>> THEN (IF b = 0 THEN <<>> ELSE <<b>>)
    ELSE LET v == 2 * Head(dec) + b
         IN  <<v % 10>> \o DoubleAdd(Tail(dec), v \div 10)

\* dec continued with the bits hi down to lo of the uint64 A
RECURSIVE DecimalWithBits(_, _, _, _)
DecimalWithBits(A, lo, hi, dec) ==
    IF Len(dec) >= 0 /\ hi < lo THEN dec
    ELSE DecimalWithBits(A, lo, hi - 1, DoubleAdd(dec, IF hi \in A THEN 1 ELSE 0))

\* the decimal digits, lowest first, of the uint64 A
DecimalOfBits(A) ==
    DecimalWithBits(A, 0, 15,
        DecimalWithBits(A, 16, 31,
            DecimalWithBits(A, 32, 47,
                DecimalWithBits(A, 48, 63, <<>>))))

Reverse(q) == [i \in 1..Len(q) |-> q[Len(q) + 1 - i]]

\* the digests of Test_defaultHash: 4733761633363427328 and
\* 4612164443424423936, digit by digit
DigestOf122 == <<4,7,3,3,7,6,1,6,3,3,3,6,3,4,2,7,3,2,8>>

DigestOf123 == <<4,6,1,2,1,6,4,4,4,3,4,2,4,4,2,3,9,3,6>>

\* a decimal number, highest digit first, mod n
RECURSIVE DecimalMod(_, _)
DecimalMod(dec, n) ==
    IF dec = <<>> THEN 0
    ELSE (10 * DecimalMod(SubSeq(dec, 1, Len(dec) - 1), n) + dec[Len(dec)]) % n

\* C23: on the shards 1, 2, 3 with the default strategy the digests of the
\* keys 122 and 123 are 4733761633363427328 and 4612164443424423936, both
\* are 0 mod 3, and One returns the shard with id 1 for both keys.
C23_ScenarioKeysSelectShardOne ==
    /\ Reverse(DecimalOfBits(sums[122])) = DigestOf122
    /\ Reverse(DecimalOfBits(sums[123])) = DigestOf123
    /\ DecimalMod(DigestOf122, 3) = 0
    /\ DecimalMod(DigestOf123, 3) = 0
    /\ \A c \in Callers :
          (Returned(c, "One") /\ call[c].ids[1] \in ScenarioKeys) =>
              /\ Len(ret.cluster.list) = 3
              /\ \A i \in 1..3 : ret.cluster.list[i].id = i
              /\ call[c].out.id = 1
              /\ call[c].out = ret.cluster.list[1]

\* One returned the shard 1 for key 122 while Sum has returned for the
\* string "122"
C23_Witness ==
    /\ Returned("c2", "One")
    /\ call["c2"].ids = <<122>>
    /\ call["c2"].out.id = 1
    /\ Returned("c1", "Sum")
    /\ call["c1"].ids[1] = [kind |-> "string", val |-> <<49, 50, 50>>]
    /\ call["c1"].out = sums[122]

\* C24: ShardConfig.valid returns an error exactly for a zero id or an
\* address that is empty or all whitespace; ConnConfig.valid returns an error
\* exactly for a zero numeric id, a string id that is empty or all
\* whitespace, or such an address.
C24_ValidRejectsZeroIdOrBlankAddress ==
    \A c \in Callers :
        /\ Returned(c, "valid") =>
              LET sc == call[c].ids[1]
              IN  (call[c].err # Nil) <=> (sc.ID = 0 \/ Blank(sc.Addr))
        /\ Returned(c, "validConn") =>
              LET cc == call[c].ids[1]
              IN  (call[c].err # Nil) <=>
                      \/ cc.ID.kind \in {"int64", "uint64"} /\ cc.ID.val = 0
                      \/ cc.ID.kind = "string" /\ Blank(cc.ID.val)
                      \/ Blank(cc.DSN)

\* valid accepted a negative id with an address that starts with a space,
\* and ConnConfig.valid rejected a string id of one space
C24_Witness ==
    /\ Returned("c1", "valid")
    /\ call["c1"].ids[1] = [ID |-> -1, Addr |-> <<" ", "c">>]
    /\ call["c1"].err = Nil
    /\ Returned("c2", "validConn")
    /\ call["c2"].ids[1].ID = [kind |-> "string", val |-> <<" ">>]
    /\ call["c2"].err = "id cannot be an empty string"

\* the prefix of the entry names for the arguments prefix: the one prefix
\* with a single underscore at its end, none for no or several arguments
Namespace(prefix) ==
    IF Len(prefix) # 1 THEN <<>>
    ELSE LET given == prefix[1]
             bare == IF given # <<>> /\ given[Len(given)] = "_"
                     THEN SubSeq(given, 1, Len(given) - 1) ELSE given
         IN  bare \o <<"_">>

\* the value of the entry with index i, and of the one without index
Entry(env, prefix, i) ==
    LET name == Namespace(prefix) \o <<"SHARD_ADDRESS", "_", ToString(i)>>
    IN  IF name \in DOMAIN env THEN env[name] ELSE <<>>

Unindexed(env, prefix) ==
    LET name == Namespace(prefix) \o <<"SHARD_ADDRESS">>
    IN  IF name \in DOMAIN env THEN env[name] ELSE <<>>

\* the number of entries 1..k before the first gap
FirstRun(env, prefix) ==
    CHOOSE k \in 0..MaxEnv :
        /\ \A i \in 1..k : Entry(env, prefix, i) # <<>>
        /\ k = MaxEnv \/ Entry(env, prefix, k + 1) = <<>>

\* C25: ShardsConfigFromEnv returns the configs {i, entry i} for i = 1..k,
\* k the number of entries before the first gap; for k = 0 the config
\* {1, entry without index} if that entry is not empty and no config
\* otherwise; and the same for a prefix with and without its underscore.
C25_FromEnvReadsUntilFirstGap ==
    \A c \in Callers :
        Returned(c, "FromEnv") =>
            LET env == call[c].m
                prefix == call[c].ids
                k == FirstRun(env, prefix)
            IN  /\ k > 0 =>
                      /\ Len(call[c].out) = k
                      /\ \A i \in 1..k :
                            call[c].out[i] = [ID |-> i, Addr |-> Entry(env, prefix, i)]
                /\ (k = 0 /\ Unindexed(env, prefix) # <<>>) =>
                      call[c].out = <<[ID |-> 1, Addr |-> Unindexed(env, prefix)]>>
                /\ (k = 0 /\ Unindexed(env, prefix) = <<>>) => call[c].out = <<>>
                /\ ShardsConfigFromEnv(env, << <<"P">> >>)
                       = ShardsConfigFromEnv(env, << <<"P", "_">> >>)

\* with the prefix P, the entries P_SHARD_ADDRESS_1 and _3 set, _2 not set
\* and P_SHARD_ADDRESS set, ShardsConfigFromEnv returned the config 1 alone
C25_Witness ==
    /\ Returned("c1", "FromEnv")
    /\ call["c1"].ids = << <<"P">> >>
    /\ Entry(call["c1"].m, call["c1"].ids, 1) # <<>>
    /\ Entry(call["c1"].m, call["c1"].ids, 2) = <<>>
    /\ Entry(call["c1"].m, call["c1"].ids, 3) # <<>>
    /\ Unindexed(call["c1"].m, call["c1"].ids) # <<>>
    /\ call["c1"].out = <<[ID |-> 1, Addr |-> <<"@", "P", "_", "SHARD_ADDRESS", "_", "1">>]>>

\* ch2 is ch with one error more at its end, or ch itself
Extends(ch2, ch) == Len(ch2) >= Len(ch) /\ SubSeq(ch2, 1, Len(ch)) = ch

C27_ErrorChannelNeverFull ==
    /\ Len(errCh) <= N
    /\ \A i \in 1..N : attempt[i].st = "sending" => Len(errCh) < N
    /\ \A c \in Callers :
          call[c].op \in {"Each", "ByKeys"} =>
              /\ call[c].op = "Each" => call[c].cap = Len(ret.cluster.list)
              /\ call[c].op = "ByKeys" =>
                    call[c].cap = Cardinality(DOMAIN Map(ret.cluster, call[c].ids))
              /\ Len(call[c].errCh) <= call[c].cap
              /\ \A s \in DOMAIN task[c] :
                    task[c][s].st = "sending" => Len(call[c].errCh) < call[c].cap

\* every one of the three tasks of an Each has sent its error
C27_Witness ==
    /\ call["c1"].op = "Each"
    /\ call["c1"].pc = "wait"
    /\ call["c1"].cap = 3
    /\ Len(call["c1"].errCh) = 3
    /\ Cardinality(FailedTasks("c1")) = 3

\* the attempts between mu.Lock() and mu.Unlock()
InCritical == { i \in 1..N : attempt[i].st \in {"locked", "appended"} }

\* the attempts that have appended their shard
Appended == { i \in 1..N : attempt[i].st \in {"appended", "exiting", "done"} /\ attempt[i].err = Nil }

\* C28: at most one attempt is between Lock and Unlock, and it holds the
\* mutex; the list holds one shard for each attempt that has appended and
\* nothing else; and once the barrier is passed the list holds exactly one
\* shard for each attempt that succeeded.
C28_AppendsMutuallyExclusive ==
    /\ Cardinality(InCritical) <= 1
    /\ \A i \in InCritical : mu = i
    /\ InCritical = {} => mu = 0
    /\ Len(list) = Cardinality(Appended)
    /\ \A i \in Appended :
          Cardinality({ k \in 1..Len(list) :
              list[k] = [id |-> cfg.Shards[i].ID,
                         conn |-> <<GivenContext>> \o cfg.Shards[i].Addr] }) = 1
    /\ ((pc = "wait" /\ wg = 0) \/ Ready) =>
          /\ \A i \in 1..N : Succeeded(i) <=> i \in Appended
          /\ Len(list) = Cardinality({ i \in 1..N : Succeeded(i) })

\* one attempt holds the mutex and has appended while the two others have
\* connected and wait for it
C28_Witness ==
    /\ N = 3
    /\ \E i \in 1..N :
          /\ attempt[i].st = "appended"
          /\ mu = i
          /\ \A j \in (1..N) \ {i} : attempt[j].st = "connected"
    /\ Len(list) = 1

\* C29: a Cluster that Connect returned has at least one shard, so when One
\* has returned on it the number of shards it divided by was not zero.
C29_ClusterNeverEmpty ==
    /\ Ready => Len(ret.cluster.list) >= 1
    /\ pc = "done" /\ N = 0 => ret.err # Nil /\ ret.cluster = NoCluster
    /\ \A c \in Callers :
          Returned(c, "One") => Len(ret.cluster.list) # 0

\* One has returned on a Cluster of one shard built with the default strategy
C29_Witness ==
    /\ Ready
    /\ N = 1
    /\ Len(ret.cluster.list) = 1
    /\ ret.cluster.calc = "default"
    /\ Returned("c1", "One")
    /\ call["c1"].out = ret.cluster.list[1]

\* C30: when every step that can be taken is taken in the end, and so every
\* call of cfg.Connect and of fn returns, Connect returns, and every call of
\* Each and of ByKeys that was made returns.
C30_CallsReturn ==
    /\ <>(pc = "done")
    /\ \A c \in Callers :
          (call[c].pc \in {"loop", "wait"}) ~> (call[c].pc = "returned")

\* ByKeys has returned nil for two groups on three shards after a Connect
\* that has returned
C30_Witness ==
    /\ pc = "done"
    /\ Returned("c1", "ByKeys")
    /\ Len(ret.cluster.list) = 3
    /\ Cardinality(DOMAIN task["c1"]) = 2
    /\ FailedTasks("c1") = {}
    /\ call["c1"].err = Nil

\* ---------------------------------------------------------------- C31..C34
\* the errors of the tasks of the call of caller c
TaskErrors(c) == { task[c][s].err : s \in FailedTasks(c) }

\* the other caller
Other(c) == CHOOSE d \in Callers : d # c

\* C31: with two callers running Each and ByKeys on one Cluster at the same
\* time, the error channel of a call holds only errors of the tasks of that
\* call; the error a call returns is the error of one of its own tasks and
\* of no task of the other call; and a call none of whose tasks failed
\* returns nil, whatever the tasks of the other call did.
C31_CallResultFromOwnTasksOnly ==
    \A c \in Callers :
        call[c].op \in {"Each", "ByKeys"} =>
            /\ \A k \in 1..Len(call[c].errCh) :
                   /\ call[c].errCh[k] \in TaskErrors(c)
                   /\ call[c].errCh[k] \notin TaskErrors(Other(c))
            /\ call[c].pc = "returned" =>
                   /\ call[c].err # Nil =>
                          /\ call[c].err \in TaskErrors(c)
                          /\ call[c].err \notin TaskErrors(Other(c))
                   /\ FailedTasks(c) = {} => call[c].err = Nil

\* an Each whose two tasks succeeded has returned nil while a task of the
\* ByKeys of the other caller has failed and sent its error
C31_Witness ==
    /\ Returned("c1", "Each")
    /\ Cardinality(DOMAIN task["c1"]) = 2
    /\ FailedTasks("c1") = {}
    /\ call["c1"].err = Nil
    /\ call["c2"].op = "ByKeys"
    /\ call["c2"].pc \in {"loop", "wait"}
    /\ FailedTasks("c2") # {}
    /\ call["c2"].errCh # <<>>

\* C32: for an empty key sequence the result of Map is the empty mapping,
\* and ByKeys starts no goroutine, so it calls fn zero times, finds nothing
\* to wait for and returns nil; for a non-empty key sequence the result of
\* Map has a group, and none of its groups is empty.
C32_EmptyKeysAndNoEmptyGroup ==
    \A c \in Callers :
        /\ call[c].op \in {"Map", "ByKeys"} =>
               /\ call[c].ids = <<>> => call[c].m = <<>>
               /\ call[c].ids # <<>> =>
                      /\ DOMAIN call[c].m # {}
                      /\ \A s \in DOMAIN call[c].m : call[c].m[s] # <<>>
        /\ (call[c].op = "ByKeys" /\ call[c].ids = <<>>) =>
               /\ task[c] = <<>>
               /\ call[c].wg = 0
               /\ call[c].errCh = <<>>
               /\ call[c].pc = "returned" => call[c].err = Nil

\* ByKeys has returned nil for no keys on a Cluster of three shards
C32_Witness ==
    /\ Returned("c1", "ByKeys")
    /\ Len(ret.cluster.list) = 3
    /\ call["c1"].ids = <<>>
    /\ call["c1"].m = <<>>
    /\ task["c1"] = <<>>
    /\ call["c1"].err = Nil

\* the first config of the list that fails per-field validation, 0 if none
FirstInvalid ==
    IF \A i \in 1..N : FieldsValid(cfg.Shards[i]) THEN 0
    ELSE CHOOSE i \in 1..N :
            /\ ~FieldsValid(cfg.Shards[i])
            /\ \A j \in 1..(i - 1) : FieldsValid(cfg.Shards[j])

\* the error of the first check of Connect that the config fails, nil if it
\* passes them all
FirstCheckError ==
    IF N = 0 THEN "at least one shard config is required"
    ELSE IF SharedID \/ SharedAddr THEN "shard configurations are not unique"
    ELSE IF ~cfg.Connect THEN "connect func cannot be nil"
    ELSE IF FirstInvalid = 0 THEN Nil
    ELSE IF cfg.Shards[FirstInvalid].ID = 0 THEN "validation: invalid shard id"
    ELSE "validation: invalid dsn"

\* C33: when Connect has returned for a config that fails one of its checks
\* - empty list, then uniqueness of ids and addresses, then presence of the
\* connect function, then the fields of each config in list order, the id
\* before the address - it returned no Cluster and the error of the first
\* check that fails; for a config that passes them all it returned nil or
\* the error of an attempt.
C33_FirstFailingCheckIsReported ==
    pc = "done" =>
        /\ FirstCheckError # Nil =>
               /\ ret.err = FirstCheckError
               /\ ret.cluster = NoCluster
        /\ FirstCheckError = Nil =>
               \/ ret.err = Nil
               \/ \E i \in 1..N : Failed(i) /\ ret.err = attempt[i].err

\* Connect returned "not unique" for two configs that both have the id 0,
\* distinct addresses that are not blank, and no connect function
C33_Witness ==
    /\ pc = "done"
    /\ N = 2
    /\ cfg.Shards[1].ID = 0
    /\ cfg.Shards[2].ID = 0
    /\ ~SharedAddr
    /\ \A i \in 1..N : ~Blank(cfg.Shards[i].Addr)
    /\ ~cfg.Connect
    /\ ret.err = "shard configurations are not unique"

\* the attempts that have called cfg.Connect
Called == { i \in 1..N : attempt[i].st \notin {"idle", "spawned"} }

\* C34: every call of cfg.Connect receives a context that is not nil: the
\* context of the config when it has one, the same for every attempt, and
\* the background context when it has none; and the Cluster Connect returns
\* for a config without a context is the one it returns for the same config
\* with the background context, the shards opened with the background
\* context in ascending order of id.
C34_ConnectReceivesContext ==
    /\ \A i \in Called :
          /\ attempt[i].ctx # Nil
          /\ cfg.Context # Nil => attempt[i].ctx = cfg.Context
          /\ cfg.Context = Nil => attempt[i].ctx = "background"
    /\ \A i, j \in Called : attempt[i].ctx = attempt[j].ctx
    /\ (Ready /\ cfg.Context \in {Nil, "background"}) =>
          ret.cluster =
             [list |-> sortById([i \in 1..N |->
                          [id |-> cfg.Shards[i].ID,
                           conn |-> <<"background">> \o cfg.Shards[i].Addr]]),
              calc |-> "default"]

\* Connect returned a Cluster of two shards for a config without a context,
\* and a shard of it was looked up
C34_Witness ==
    /\ Ready
    /\ cfg.Context = Nil
    /\ N = 2
    /\ Called = 1..N
    /\ \A i \in 1..N : attempt[i].ctx = "background"
    /\ Len(ret.cluster.list) = 2
    /\ Returned("c1", "One")

====
